---- MODULE Spec2Model ----
(***************************************************************************)
(* Capacity allocation of DynamicProgrammingTask1.py:                      *)
(* ProportionalAllocation.allocate and CapacityAllocator.run.              *)
(*                                                                         *)
(* Numbers.  The program computes with Python/numpy floating-point values. *)
(* They are modelled as exact fractions n/d in lowest terms, extended with *)
(* the three IEEE special values the program can produce: +inf (1/0),      *)
(* -inf (-1/0) and NaN (0/0).  Rounding of the last bit is not modelled;   *)
(* the special values, the comparisons with NaN and the order of the       *)
(* operations are.                                                         *)
(***************************************************************************)
EXTENDS Integers, Sequences, FiniteSets, TLC

\* ---------------------------------------------------------------- bounds
MaxN == 2          \* most rows of a table
MaxBadN == 1       \* most rows of a table that lacks a required column
MaxFileRows == 1   \* most rows of a file that CapacityAllocator.run reads
MaxNullRows == 1   \* most file rows whose PRODUCT is null
MaxRerunRows == 1  \* most rows of a returned table that is passed in again
MaxDemand == 2     \* largest CAPACITY (demand) value
MaxLimit == 1      \* largest INDIVIDUAL LIMIT value
MaxPool == 2       \* largest GROUP CAPACITY value
MaxIters == 5      \* the iteration counter stops counting here

\* ---------------------------------------------------------------- numbers
Abs(x) == IF x < 0 THEN -x ELSE x

Sign(x) == IF x < 0 THEN -1 ELSE IF x > 0 THEN 1 ELSE 0

RECURSIVE GCD(_, _)
GCD(a, b) == IF b = 0 THEN a ELSE GCD(b, a % b)

\* the fraction n/d in lowest terms with d >= 0; d = 0 gives +inf, -inf or NaN
Norm(n, d) ==
    IF d = 0 THEN [n |-> Sign(n), d |-> 0]
    ELSE LET g == GCD(Abs(n), Abs(d))
             s == Sign(d)
         IN  [n |-> (s * n) \div g, d |-> (s * d) \div g]

Rat(k) == [n |-> k, d |-> 1]
Zero == Rat(0)
Inf == [n |-> 1, d |-> 0]
NaN == [n |-> 0, d |-> 0]
\* Python's None, and a local variable that has no value yet
NoneVal == [n |-> 0, d |-> -1]

IsNaN(a) == a.n = 0 /\ a.d = 0

Mul(a, b) == Norm(a.n * b.n, a.d * b.d)

\* numpy division: x/0 is +-inf, 0/0 is NaN, nothing raises
Div(a, b) == Norm(a.n * b.d, a.d * b.n)

Add(a, b) ==
    IF IsNaN(a) \/ IsNaN(b) THEN NaN
    ELSE IF a.d = 0 /\ b.d = 0 THEN (IF a.n = b.n THEN a ELSE NaN)
    ELSE IF a.d = 0 THEN a
    ELSE IF b.d = 0 THEN b
    ELSE Norm(a.n * b.d + b.n * a.d, a.d * b.d)

Neg(a) == [n |-> -a.n, d |-> a.d]

Sub(a, b) == Add(a, Neg(b))

\* a < b as the floating-point comparison decides it: false when either is NaN
Less(a, b) ==
    IF IsNaN(a) \/ IsNaN(b) THEN FALSE
    ELSE IF a.d = 0 /\ b.d = 0 THEN a.n < b.n
    ELSE a.n * b.d < b.n * a.d

\* a == b as the floating-point comparison decides it
Eq(a, b) == ~IsNaN(a) /\ ~IsNaN(b) /\ a = b

Leq(a, b) == Less(a, b) \/ Eq(a, b)

\* Python's min(a, b): the first argument unless the second is smaller
PyMin(a, b) == IF Less(b, a) THEN b ELSE a

\* Python's sum(list): left to right, starting from 0
RECURSIVE PySum(_)
PySum(s) == IF s = <<>> THEN Zero ELSE Add(PySum(SubSeq(s, 1, Len(s) - 1)), s[Len(s)])

\* ---------------------------------------------------------------- tables
Required == <<"GROUP CAPACITY", "CAPACITY", "INDIVIDUAL LIMIT">>

Range(s) == {s[i] : i \in 1..Len(s)}

\* a DataFrame: the list of its column names, its number of rows, and the
\* values of the columns the program reads or writes (<<>> for a column
\* the table does not have)
Table(columns, n, gc, capacity, limit) ==
    [columns |-> columns, n |-> n, gc |-> gc, capacity |-> capacity,
     limit |-> limit, allocation |-> <<>>, share |-> <<>>, overlimit |-> <<>>]

\* pd.DataFrame(): no columns, no rows
EmptyFrame == Table(<<>>, 0, <<>>, <<>>, <<>>)

\* DataFrame.empty
IsEmpty(t) == t.n = 0 \/ t.columns = <<>>

\* t is a table that has every required column, with values from lo upwards
\* (nothing in the program rejects a negative value); the pool capacity is
\* the same in every row; a missing limit is NaN
IsFullTable(t, lo) ==
    \E n \in 0..MaxN, p \in lo..MaxPool :
        \E c \in [1..n -> {Rat(k) : k \in lo..MaxDemand}],
           l \in [1..n -> {NaN} \cup {Rat(k) : k \in lo..MaxLimit}] :
            t = Table(Required, n, [i \in 1..n |-> Rat(p)], c, l)

\* the lists of required columns that lack at least one of them
BadColumns ==
    {<<>>, <<"GROUP CAPACITY">>, <<"CAPACITY">>, <<"INDIVIDUAL LIMIT">>,
     <<"GROUP CAPACITY", "CAPACITY">>, <<"GROUP CAPACITY", "INDIVIDUAL LIMIT">>,
     <<"CAPACITY", "INDIVIDUAL LIMIT">>}

Has(columns, name) == name \in Range(columns)

\* t is a table that lacks a required column
IsBadTable(t) ==
    \E cs \in BadColumns, n \in 0..MaxBadN :
        \E p \in {0, MaxPool}, c \in {0, MaxDemand}, l \in {NaN, Rat(MaxLimit)} :
            t = Table(cs, IF cs = <<>> THEN 0 ELSE n,
                      IF Has(cs, "GROUP CAPACITY") THEN [i \in 1..n |-> Rat(p)] ELSE <<>>,
                      IF Has(cs, "CAPACITY") THEN [i \in 1..n |-> Rat(c)] ELSE <<>>,
                      IF Has(cs, "INDIVIDUAL LIMIT") THEN [i \in 1..n |-> l] ELSE <<>>)

\* ---------------------------------------------------------------- material balance tables
MaxRows == 2       \* rows of a material balance table
MaxQty == 1        \* largest quantity in a cell, and largest stock and backlog

\* a cell of a table: a number, a text that is no number, or None
Num(k) == <<"num", k>>
Text == <<"text", 0>>
None == <<"none", 0>>

RequiredForBalance == <<"Demand", "Confirmed Delivery Sum">>

\* a table of material_balance_task_2; of the Date column only the name is
\* kept, its values are taken to be valid year-week numbers
MTable(columns, n, demand, cds, balance) ==
    [columns |-> columns, n |-> n, demand |-> demand, cds |-> cds, balance |-> balance]

\* pd.DataFrame()
MEmptyFrame == MTable(<<>>, 0, <<>>, <<>>, <<>>)

\* DataFrame.empty
MIsEmpty(t) == t.n = 0 \/ t.columns = <<>>

\* t is a table as extract_data builds it, with or without its Date column,
\* or a table without its Confirmed Delivery Sum column
IsMaterialTable(t) ==
    \/ \E cs \in {<<"Date", "Demand", "Confirmed Delivery Sum">>,
                  <<"Demand", "Confirmed Delivery Sum">>}, n \in 0..MaxRows :
         \E d \in [1..n -> {Text} \cup {Num(k) : k \in 0..MaxQty}],
            c \in [1..n -> {Text} \cup {Num(k) : k \in 0..MaxQty}] :
             t = MTable(cs, n, d, c, <<>>)
    \/ \E n \in 0..MaxRows :
         t = MTable(<<"Date", "Demand">>, n, [i \in 1..n |-> Num(MaxQty)], <<>>, <<>>)
    \/ t = MEmptyFrame

\* t is what the rows of a workbook of 26 rows or more amount to: week
\* numbers, demands and deliveries, one table row for each column of the
\* workbook from the fifth on (none when it has four columns); a Text in
\* cds stands for a column whose delivery rows hold no number
IsWorkbook(t) ==
    \E n \in 0..MaxRows :
        \E d \in [1..n -> {Text} \cup {Num(k) : k \in 0..MaxQty}],
           c \in [1..n -> {Text} \cup {Num(k) : k \in 0..MaxQty}] :
            t = MTable(<<"Date", "Demand", "Confirmed Delivery Sum">>, n, d, c, <<>>)

\* tables a stub of MaterialBalanceWorkflow.run returns
StubResults ==
    {MEmptyFrame,
     MTable(<<"Date">>, 1, <<>>, <<>>, <<>>),
     MTable(<<"Date", "New Material Balance">>, 0, <<>>, <<>>, <<>>),
     MTable(<<"Date", "New Material Balance">>, 1, <<>>, <<>>, <<Num(MaxQty)>>),
     MTable(<<"Date", "Demand", "Confirmed Delivery Sum", "New Material Balance">>, 1,
            <<Num(MaxQty)>>, <<Num(0)>>, <<Num(0)>>)}

\* ---------------------------------------------------------------- state
VARIABLES
    data,                \* the DataFrame the caller holds and passes in
    input,               \* that DataFrame as it was when the call started
    entry,               \* "allocate" or "run": what the caller called
    pc,                  \* position in the call
    group_capacity,      \* locals of allocate
    demands,
    limits,
    allocation,
    allocated_capacity,  \* local of _adjust_allocation
    iters,               \* executions of the loop body so far (stops at MaxIters)
    result,              \* what the call returned or raised
    run,                 \* 1 for the first call, 2 for a call on the returned table
    prev,                \* the table the first call returned
    mdata,               \* MaterialProcessor.data
    minput,              \* that table as it was when the calculation was called
    stock_at_hand,       \* MaterialProcessor.stock_at_hand
    production_backlog,  \* MaterialProcessor.production_backlog
    mpc,                 \* position in the processor's calls
    row,                 \* rows of New Material Balance filled so far
    wentry,              \* "processor", "workflow" or "stub": what the caller uses
    wresult,             \* the table MaterialBalanceWorkflow.run returned
    plot_called,         \* ChartPlotter.plot_line_chart was called
    shown,               \* plt.show() was reached
    printed,             \* what process_workflow printed last
    helper               \* a call of _distribute_surplus on its own

workflow == <<wentry, wresult, plot_called, shown, printed>>

material == <<mdata, minput, stock_at_hand, production_backlog, mpc, row, workflow>>

vars == <<data, input, entry, pc, group_capacity, demands, limits, allocation,
          allocated_capacity, iters, result, run, prev, material, helper>>

locals == <<group_capacity, demands, limits, allocation, allocated_capacity, iters>>

NoResult == [kind |-> "none", table |-> EmptyFrame, same |-> FALSE]

\* _distribute_surplus is not called on its own
NoCall == [state |-> "none", allocation |-> <<>>, demands |-> <<>>, limits |-> <<>>,
           remaining_products |-> <<>>, remaining_demand |-> Zero, surplus |-> Zero,
           returned |-> <<>>]

\* no MaterialProcessor has been constructed
MaterialIdle ==
    /\ mdata = MEmptyFrame
    /\ minput = MEmptyFrame
    /\ stock_at_hand = 0
    /\ production_backlog = 0
    /\ mpc = "none"
    /\ row = 0
    /\ wentry = "none"
    /\ wresult = MEmptyFrame
    /\ plot_called = FALSE
    /\ shown = FALSE
    /\ printed = "nothing"

\* no call of allocate or CapacityAllocator.run is under way
AllocationIdle ==
    /\ data = EmptyFrame
    /\ input = EmptyFrame
    /\ entry = "none"
    /\ pc = "none"
    /\ group_capacity = NoneVal
    /\ demands = <<>>
    /\ limits = <<>>
    /\ allocation = <<>>
    /\ allocated_capacity = NoneVal
    /\ iters = 0
    /\ result = NoResult
    /\ run = 1
    /\ prev = EmptyFrame

Init ==
    /\ \/ IsFullTable(data, -1)
       \/ IsBadTable(data)
    /\ input = data
    /\ entry = "none"
    /\ pc = "start"
    /\ group_capacity = NoneVal
    /\ demands = <<>>
    /\ limits = <<>>
    /\ allocation = <<>>
    /\ allocated_capacity = NoneVal
    /\ iters = 0
    /\ result = NoResult
    /\ run = 1
    /\ prev = EmptyFrame
    /\ MaterialIdle
    /\ helper = NoCall

\* ---------------------------------------------------------------- helpers of allocate
\* the first m rows of a table
Rows(t, m) ==
    [t EXCEPT !.n = m,
              !.gc = IF t.gc = <<>> THEN <<>> ELSE SubSeq(t.gc, 1, m),
              !.capacity = IF t.capacity = <<>> THEN <<>> ELSE SubSeq(t.capacity, 1, m),
              !.limit = IF t.limit = <<>> THEN <<>> ELSE SubSeq(t.limit, 1, m)]

\* pool capacity, demands and limits of table t are non-negative (a limit
\* may be missing)
NonNegative(t) ==
    /\ \A i \in 1..Len(t.gc) : ~Less(t.gc[i], Zero)
    /\ \A i \in 1..Len(t.capacity) : ~Less(t.capacity[i], Zero)
    /\ \A i \in 1..Len(t.limit) : ~Less(t.limit[i], Zero)

\* a validation that also turns away negative values
MissingColumnsOrNegative(t) ==
    ~(Range(Required) \subseteq Range(t.columns)) \/ ~NonNegative(t)

\* _validate_columns: true when it raises KeyError
MissingColumns(t) == ~(Range(Required) \subseteq Range(t.columns))

\* a missing limit filled with zero
FillNaZero(s) == [i \in 1..Len(s) |-> IF IsNaN(s[i]) THEN Zero ELSE s[i]]

\* _extract_columns: fillna(float('inf')) on the INDIVIDUAL LIMIT column
FillNa(s) == [i \in 1..Len(s) |-> IF IsNaN(s[i]) THEN Inf ELSE s[i]]

\* Series.sum() of the CAPACITY column
TotalDemand(d) == PySum(d)

\* the quotient turned round: total demand over demand
InitialAllocationInverted(d, l, gcap) ==
    [i \in 1..Len(d) |-> PyMin(Mul(Div(TotalDemand(d), d[i]), gcap), l[i])]

\* an entity that has a limit started at its limit
InitialAllocationAtLimit(d, l, gcap) ==
    [i \in 1..Len(d) |-> IF l[i] = Inf THEN Mul(Div(d[i], TotalDemand(d)), gcap) ELSE l[i]]

\* the pool split evenly, whatever the demands
InitialAllocationEqualSplit(d, l, gcap) ==
    [i \in 1..Len(d) |-> PyMin(Div(gcap, Rat(Len(d))), l[i])]

\* the proportional part, not cut at the limit
InitialAllocationUnclipped(d, l, gcap) ==
    [i \in 1..Len(d) |-> Mul(Div(d[i], TotalDemand(d)), gcap)]

\* _initial_allocation
InitialAllocation(d, l, gcap) ==
    [i \in 1..Len(d) |-> PyMin(Mul(Div(d[i], TotalDemand(d)), gcap), l[i])]

\* the subtraction turned round
CalculateSurplusNegated(gcap, allocated) == Sub(allocated, gcap)

\* the surplus taken to be the whole pool, whatever is allocated already
CalculateSurplusWholePool(gcap, allocated) == gcap

\* _calculate_surplus
CalculateSurplus(gcap, allocated) == Sub(gcap, allocated)

\* the comparison turned round: the products above their limit
GetRemainingProductsFlipped(a, l) ==
    LET above == {i \in 1..Len(a) : Less(l[i], a[i])}
    IN  IF above = {} THEN <<>> ELSE <<CHOOSE i \in above : \A j \in above : i <= j>>

\* _get_remaining_products: the indices, in order, still below their limit
RECURSIVE RemainingUpTo(_, _, _)
RemainingUpTo(a, l, k) ==
    IF k = 0 THEN <<>>
    ELSE IF Less(a[k], l[k]) THEN Append(RemainingUpTo(a, l, k - 1), k)
    ELSE RemainingUpTo(a, l, k - 1)

GetRemainingProducts(a, l) == RemainingUpTo(a, l, Len(a))

\* _calculate_remaining_demand
CalculateRemainingDemand(d, remaining) ==
    PySum([j \in 1..Len(remaining) |-> d[remaining[j]]])

\* _calculate_additional_capacity
CalculateAdditionalCapacity(demand, remaining_demand, surplus) ==
    IF Eq(remaining_demand, Zero) THEN Zero
    ELSE Mul(Div(demand, remaining_demand), surplus)

\* the addition made without the cap at the limit
DistributeSurplusUncapped(a, d, l, remaining, remaining_demand, surplus) ==
    [i \in 1..Len(a) |->
        IF i \in Range(remaining)
        THEN Add(a[i], CalculateAdditionalCapacity(d[i], remaining_demand, surplus))
        ELSE a[i]]

\* the addition made to every entity, listed or not
DistributeSurplusToAll(a, d, l, remaining, remaining_demand, surplus) ==
    [i \in 1..Len(a) |->
        PyMin(Add(a[i], CalculateAdditionalCapacity(d[i], remaining_demand, surplus)), l[i])]

\* _distribute_surplus
DistributeSurplus(a, d, l, remaining, remaining_demand, surplus) ==
    [i \in 1..Len(a) |->
        IF i \in Range(remaining)
        THEN PyMin(Add(a[i], CalculateAdditionalCapacity(d[i], remaining_demand, surplus)), l[i])
        ELSE a[i]]

\* _adjust_allocation as a function: the vector the loop returns, or <<>>
\* when the loop has not exited after MaxIters executions of its body
RECURSIVE AdjustAllocation(_, _, _, _, _)
AdjustAllocation(a, d, l, gcap, fuel) ==
    IF ~Less(PySum(a), gcap) THEN a
    ELSE LET remaining_products == GetRemainingProducts(a, l)
         IN  IF remaining_products = <<>> THEN a
             ELSE IF fuel = 0 THEN <<>>
             ELSE AdjustAllocation(
                      DistributeSurplus(a, d, l, remaining_products,
                                        CalculateRemainingDemand(d, remaining_products),
                                        CalculateSurplus(gcap, PySum(a))),
                      d, l, gcap, fuel - 1)

\* allocate, lines 93-95, as a function of the pool capacity and the CAPACITY
\* and INDIVIDUAL LIMIT columns of a non-empty table
AllocationOf(gcap, capacity, limitColumn) ==
    AdjustAllocation(InitialAllocation(capacity, FillNa(limitColumn), gcap),
                     capacity, FillNa(limitColumn), gcap, MaxIters)

\* the share taken of the entity's own demand, not of the total demand
AllocationShareOfOwnDemand(a, capacity) ==
    IF Eq(TotalDemand(capacity), Zero)
    THEN [i \in 1..Len(a) |-> NoneVal]
    ELSE [i \in 1..Len(a) |-> Div(a[i], capacity[i])]

\* the share taken of what was allocated, not of what was demanded
AllocationShareOfAllocated(a, capacity) ==
    IF Eq(PySum(a), Zero)
    THEN [i \in 1..Len(a) |-> NoneVal]
    ELSE [i \in 1..Len(a) |-> Div(a[i], PySum(a))]

\* _calculate_allocation_share: the NEW ALLOC. SHARE column
AllocationShare(a, capacity) ==
    IF Eq(TotalDemand(capacity), Zero)
    THEN [i \in 1..Len(a) |-> NoneVal]
    ELSE [i \in 1..Len(a) |-> Div(a[i], TotalDemand(capacity))]

\* data['ALLOCATION'] < data['INDIVIDUAL LIMIT'], on the table's own column
NewOverlimit(a, limitColumn) == [i \in 1..Len(a) |-> Less(a[i], limitColumn[i])]

\* adding or overwriting a column keeps the column list free of duplicates
WithColumn(columns, name) == IF Has(columns, name) THEN columns ELSE Append(columns, name)

\* ---------------------------------------------------------------- actions
\* the caller calls ProportionalAllocation.allocate(data)
CallAllocate ==
    /\ pc = "start"
    /\ entry' = "allocate"
    /\ pc' = "validate"
    /\ UNCHANGED <<data, input, locals, result, run, prev, material, helper>>

\* CapacityAllocator.run, first half: FileReader.read_excel_data.  The file
\* holds the rows of data, of which the last n - m have a null PRODUCT; a
\* file that is missing or cannot be read gives an empty DataFrame.
ReadExcelData(outcome, m) ==
    /\ pc = "start"
    /\ run = 1
    /\ entry' = "run"
    /\ data' = IF outcome = "ok" THEN Rows(data, m) ELSE EmptyFrame
    /\ input' = data'
    /\ pc' = "run_read"
    /\ UNCHANGED <<locals, result, run, prev, material, helper>>

\* run without its test for an empty table: allocate is called all the same
RunNoDataAllocates ==
    /\ pc = "run_read"
    /\ IsEmpty(data)
    /\ pc' = "validate"
    /\ UNCHANGED <<data, input, entry, locals, result, run, prev, material, helper>>

\* CapacityAllocator.run, second half: no data to process, or allocate
RunNoData ==
    /\ pc = "run_read"
    /\ IsEmpty(data)
    /\ result' = [kind |-> "table", table |-> EmptyFrame, same |-> FALSE]
    /\ pc' = "done"
    /\ UNCHANGED <<data, input, entry, locals, run, prev, material, helper>>

RunAllocate ==
    /\ pc = "run_read"
    /\ ~IsEmpty(data)
    /\ pc' = "validate"
    /\ UNCHANGED <<data, input, entry, locals, result, run, prev, material, helper>>

\* allocate: _validate_columns raises KeyError
ValidateRaises ==
    /\ pc = "validate"
    /\ MissingColumns(data)
    /\ result' = [kind |-> "KeyError", table |-> EmptyFrame, same |-> FALSE]
    /\ pc' = "raised"
    /\ UNCHANGED <<data, input, entry, locals, run, prev, material, helper>>

\* the empty table answered before its columns are looked at
HandleEmptyDataUnvalidated ==
    /\ pc = "validate"
    /\ IsEmpty(data)
    /\ result' = [kind |-> "table",
                  table |-> [EmptyFrame EXCEPT !.columns = Append(data.columns, "ALLOCATION")],
                  same |-> FALSE]
    /\ pc' = "done"
    /\ UNCHANGED <<data, input, entry, locals, run, prev, material, helper>>

\* allocate: the columns are there and the table is empty: _handle_empty_data
HandleEmptyData ==
    /\ pc = "validate"
    /\ ~MissingColumns(data)
    /\ IsEmpty(data)
    /\ result' = [kind |-> "table",
                  table |-> [EmptyFrame EXCEPT !.columns = Append(data.columns, "ALLOCATION")],
                  same |-> FALSE]
    /\ pc' = "done"
    /\ UNCHANGED <<data, input, entry, locals, run, prev, material, helper>>

\* allocate: _extract_columns
ExtractColumns ==
    /\ pc = "validate"
    /\ ~MissingColumns(data)
    /\ ~IsEmpty(data)
    /\ group_capacity' = data.gc[1]
    /\ demands' = data.capacity
    /\ limits' = FillNa(data.limit)
    /\ pc' = "initial"
    /\ UNCHANGED <<data, input, entry, allocation, allocated_capacity, iters, result, run, prev, material, helper>>

\* allocate: _initial_allocation, and the first line of _adjust_allocation
InitialPass ==
    /\ pc = "initial"
    /\ allocation' = InitialAllocation(demands, limits, group_capacity)
    /\ allocated_capacity' = PySum(allocation')
    /\ pc' = "loop"
    /\ UNCHANGED <<data, input, entry, group_capacity, demands, limits, iters, result, run, prev, material, helper>>

\* _adjust_allocation: one execution of the loop body that distributes
LoopDistribute ==
    /\ pc = "loop"
    /\ Less(allocated_capacity, group_capacity)
    /\ LET surplus == CalculateSurplus(group_capacity, allocated_capacity)
           remaining_products == GetRemainingProducts(allocation, limits)
           remaining_demand == CalculateRemainingDemand(demands, remaining_products)
       IN  /\ remaining_products # <<>>
           /\ allocation' = DistributeSurplus(allocation, demands, limits,
                                              remaining_products, remaining_demand, surplus)
           /\ allocated_capacity' = PySum(allocation')
    /\ iters' = IF iters < MaxIters THEN iters + 1 ELSE iters
    /\ UNCHANGED <<data, input, entry, pc, group_capacity, demands, limits, result, run, prev, material, helper>>

\* _adjust_allocation: the loop body finds no product below its limit: break
LoopBreak ==
    /\ pc = "loop"
    /\ Less(allocated_capacity, group_capacity)
    /\ GetRemainingProducts(allocation, limits) = <<>>
    /\ iters' = IF iters < MaxIters THEN iters + 1 ELSE iters
    /\ pc' = "finish"
    /\ UNCHANGED <<data, input, entry, group_capacity, demands, limits, allocation,
                   allocated_capacity, result, run, prev, material, helper>>

\* _adjust_allocation: the loop condition is false
LoopExit ==
    /\ pc = "loop"
    /\ ~Less(allocated_capacity, group_capacity)
    /\ pc' = "finish"
    /\ UNCHANGED <<data, input, entry, locals, result, run, prev, material, helper>>

\* the allocation written over the CAPACITY column as well
FinishIntoCapacity ==
    /\ pc = "finish"
    /\ data' = [data EXCEPT
                  !.columns = WithColumn(WithColumn(WithColumn(data.columns, "ALLOCATION"),
                                                    "NEW ALLOC. SHARE"), "NEW OVERLIMIT"),
                  !.capacity = allocation,
                  !.allocation = allocation,
                  !.share = AllocationShare(allocation, data.capacity),
                  !.overlimit = NewOverlimit(allocation, data.limit)]
    /\ result' = [kind |-> "table", table |-> data', same |-> TRUE]
    /\ pc' = "done"
    /\ UNCHANGED <<input, entry, locals, run, prev, material, helper>>

\* allocate, lines 97-101: the three result columns are written into the
\* caller's table, which is what is returned
Finish ==
    /\ pc = "finish"
    /\ data' = [data EXCEPT
                  !.columns = WithColumn(WithColumn(WithColumn(data.columns, "ALLOCATION"),
                                                    "NEW ALLOC. SHARE"), "NEW OVERLIMIT"),
                  !.allocation = allocation,
                  !.share = AllocationShare(allocation, data.capacity),
                  !.overlimit = NewOverlimit(allocation, data.limit)]
    /\ result' = [kind |-> "table", table |-> data', same |-> TRUE]
    /\ pc' = "done"
    /\ UNCHANGED <<input, entry, locals, run, prev, material, helper>>

\* the caller passes the table the first call returned to allocate again
Rerun ==
    /\ pc = "done"
    /\ run = 1
    /\ entry = "allocate"
    /\ result.kind = "table"
    /\ result.table.n <= MaxRerunRows
    /\ prev' = result.table
    /\ data' = result.table
    /\ input' = result.table
    /\ run' = 2
    /\ entry' = "allocate"
    /\ pc' = "validate"
    /\ group_capacity' = NoneVal
    /\ demands' = <<>>
    /\ limits' = <<>>
    /\ allocation' = <<>>
    /\ allocated_capacity' = NoneVal
    /\ iters' = 0
    /\ result' = NoResult
    /\ UNCHANGED <<material, helper>>

Next ==
    \/ CallAllocate
    \/ \E outcome \in {"ok", "not_found", "error"} :
         \E m \in 0..MaxFileRows : /\ data.n <= MaxFileRows
                                   /\ m <= data.n
                                   /\ data.n - m <= MaxNullRows
                                   /\ ReadExcelData(outcome, m)
    \/ RunNoData
    \/ RunAllocate
    \/ ValidateRaises
    \/ HandleEmptyData
    \/ ExtractColumns
    \/ InitialPass
    \/ LoopDistribute
    \/ LoopBreak
    \/ LoopExit
    \/ Finish
    \/ Rerun

Spec == Init /\ [][Next]_vars

TypeOK ==
    /\ pc \in {"start", "run_read", "validate", "initial", "loop", "finish", "done", "raised"}
    /\ entry \in {"none", "allocate", "run"}
    /\ run \in {1, 2}
    /\ iters \in 0..MaxIters

\* ---------------------------------------------------------------- MaterialProcessor
allocationVars == <<data, input, entry, pc, group_capacity, demands, limits, allocation,
                    allocated_capacity, iters, result, run, prev, helper>>

\* MaterialProcessor(data, product_no, production_backlog, stock_at_hand)
\* process_workflow(filepath), with mdata the table that the rows of the
\* workbook at filepath amount to; or process_workflow with a
\* MaterialBalanceWorkflow.run that is replaced by a stub
BalanceInit ==
    /\ AllocationIdle
    /\ helper = NoCall
    /\ row = 0
    /\ plot_called = FALSE
    /\ shown = FALSE
    /\ printed = "nothing"
    /\ \/ /\ wentry = "processor"
          /\ IsMaterialTable(mdata)
          /\ stock_at_hand \in {0, MaxQty}
          /\ production_backlog \in {0, MaxQty}
          /\ mpc = "constructed"
          /\ wresult = MEmptyFrame
       \/ /\ wentry = "workflow"
          /\ IsWorkbook(mdata)
          /\ stock_at_hand \in {0, MaxQty}
          /\ production_backlog \in {0, MaxQty}
          /\ mpc = "workflow"
          /\ wresult = MEmptyFrame
       \/ /\ wentry = "stub"
          /\ mdata = MEmptyFrame
          /\ stock_at_hand = 0
          /\ production_backlog = 0
          /\ mpc = "run_returned"
          /\ wresult \in StubResults
    /\ minput = mdata

\* pd.to_numeric(errors='coerce'), fillna(0), astype(int) on one cell
ToNumeric(c) == IF c[1] = "num" THEN c ELSE Num(0)

\* the number in a numeric cell
Val(c) == c[2]

\* the sum of the first k cells of a column
RECURSIVE SumTo(_, _)
SumTo(col, k) == IF k = 0 THEN 0 ELSE SumTo(col, k - 1) + Val(col[k])

\* prepare_data_for_calculation on an empty table: returned as it is
PrepareEmpty ==
    /\ mpc = "constructed"
    /\ MIsEmpty(mdata)
    /\ mpc' = "prepared"
    /\ UNCHANGED <<mdata, minput, stock_at_hand, production_backlog, row, allocationVars, workflow>>

\* prepare_data_for_calculation: a required column is missing: ValueError
PrepareRaises ==
    /\ mpc = "constructed"
    /\ ~MIsEmpty(mdata)
    /\ \E j \in 1..Len(RequiredForBalance) : ~Has(mdata.columns, RequiredForBalance[j])
    /\ mpc' = "raised"
    /\ UNCHANGED <<mdata, minput, stock_at_hand, production_backlog, row, allocationVars, workflow>>

\* prepare_data_for_calculation: every cell made an integer, the column
\* New Material Balance added and set to None
PrepareData ==
    /\ mpc = "constructed"
    /\ ~MIsEmpty(mdata)
    /\ \A j \in 1..Len(RequiredForBalance) : Has(mdata.columns, RequiredForBalance[j])
    /\ mdata' = [mdata EXCEPT
                   !.columns = WithColumn(mdata.columns, "New Material Balance"),
                   !.demand = [i \in 1..mdata.n |-> ToNumeric(mdata.demand[i])],
                   !.cds = [i \in 1..mdata.n |-> ToNumeric(mdata.cds[i])],
                   !.balance = [i \in 1..mdata.n |-> None]]
    /\ mpc' = "prepared"
    /\ UNCHANGED <<minput, stock_at_hand, production_backlog, row, allocationVars, workflow>>

\* perform_material_balance_calculation on an empty table: returned as it is
PerformEmpty ==
    /\ mpc = "prepared"
    /\ MIsEmpty(mdata)
    /\ minput' = mdata
    /\ mpc' = "returned"
    /\ UNCHANGED <<mdata, stock_at_hand, production_backlog, row, allocationVars, workflow>>

\* perform_material_balance_calculation, lines 131-132: row 0
PerformFirstRow ==
    /\ mpc = "prepared"
    /\ ~MIsEmpty(mdata)
    /\ minput' = mdata
    /\ mdata' = [mdata EXCEPT
                   !.balance[1] = Num(stock_at_hand - production_backlog - Val(mdata.demand[1]))]
    /\ row' = 1
    /\ mpc' = "loop"
    /\ UNCHANGED <<stock_at_hand, production_backlog, allocationVars, workflow>>

\* the delivery of the row itself added, not that of the row before
PerformNextRowOwnDelivery ==
    /\ mpc = "loop"
    /\ row < mdata.n
    /\ mdata' = [mdata EXCEPT
                   !.balance[row + 1] = Num(Val(mdata.balance[row]) + Val(mdata.cds[row + 1])
                                            - Val(mdata.demand[row + 1]))]
    /\ row' = row + 1
    /\ UNCHANGED <<minput, stock_at_hand, production_backlog, mpc, allocationVars, workflow>>

\* perform_material_balance_calculation, lines 134-138: one pass of the loop
PerformNextRow ==
    /\ mpc = "loop"
    /\ row < mdata.n
    /\ LET previous_new_balance == Val(mdata.balance[row])
           confirmed_delivery_sum == Val(mdata.cds[row])
           current_demand == Val(mdata.demand[row + 1])
       IN  mdata' = [mdata EXCEPT
                       !.balance[row + 1] = Num(previous_new_balance + confirmed_delivery_sum
                                                - current_demand)]
    /\ row' = row + 1
    /\ UNCHANGED <<minput, stock_at_hand, production_backlog, mpc, allocationVars, workflow>>

\* perform_material_balance_calculation, lines 140-141: the table is returned
PerformReturn ==
    /\ mpc = "loop"
    /\ row = mdata.n
    /\ mpc' = "returned"
    /\ UNCHANGED <<mdata, minput, stock_at_hand, production_backlog, row, allocationVars, workflow>>

\* ---------------------------------------------------------------- process_workflow
processor == <<minput, stock_at_hand, production_backlog, row>>

\* FileReader.read_and_validate_excel: the workbook as read, or an empty
\* DataFrame when it is empty or has fewer than 26 rows, when the file is
\* not found, and on any other error
ReadAndValidateExcel(outcome) ==
    /\ mpc = "workflow"
    /\ mdata' = IF outcome = "ok" THEN mdata ELSE MEmptyFrame
    /\ mpc' = "read"
    /\ UNCHANGED <<processor, workflow, allocationVars>>

\* FileReader.extract_data, lines 56-57: nothing was read
ExtractNoData ==
    /\ mpc = "read"
    /\ mdata = MEmptyFrame
    /\ mpc' = "extracted"
    /\ UNCHANGED <<mdata, processor, workflow, allocationVars>>

\* FileReader.extract_data, lines 59-77: Confirmed Delivery Sum is the sum
\* of the delivery rows made numeric, which is 0 where they hold no number
ExtractData ==
    /\ mpc = "read"
    /\ mdata # MEmptyFrame
    /\ mdata' = [mdata EXCEPT !.cds = [i \in 1..mdata.n |-> ToNumeric(mdata.cds[i])]]
    /\ mpc' = "extracted"
    /\ UNCHANGED <<processor, workflow, allocationVars>>

\* MaterialBalanceWorkflow.run, lines 164-166: no data
RunNoValidData ==
    /\ mpc = "extracted"
    /\ MIsEmpty(mdata)
    /\ wresult' = MEmptyFrame
    /\ mpc' = "run_returned"
    /\ UNCHANGED <<mdata, processor, wentry, plot_called, shown, printed, allocationVars>>

\* MaterialBalanceWorkflow.run, line 168: the processor is constructed
RunConstruct ==
    /\ mpc = "extracted"
    /\ ~MIsEmpty(mdata)
    /\ minput' = mdata
    /\ mpc' = "constructed"
    /\ UNCHANGED <<mdata, stock_at_hand, production_backlog, row, workflow, allocationVars>>

\* MaterialBalanceWorkflow.run, line 173: the calculated table is returned
\* (the prepared table of line 170 is never empty here, the extracted one
\* was not)
RunReturn ==
    /\ mpc = "returned"
    /\ wentry = "workflow"
    /\ wresult' = mdata
    /\ mpc' = "run_returned"
    /\ UNCHANGED <<mdata, processor, wentry, plot_called, shown, printed, allocationVars>>

\* ChartPlotter.plot_line_chart: True when plt.show() is reached, which is
\* when the table is not empty and has the four columns it draws (drawing
\* itself is taken to raise nothing)
PlotLineChart(t) ==
    /\ ~MIsEmpty(t)
    /\ \A name \in {"Date", "New Material Balance", "Demand", "Confirmed Delivery Sum"} :
          Has(t.columns, name)

\* the chart drawn for every table that is not empty
ProcessPlotUnchecked ==
    /\ mpc = "run_returned"
    /\ ~MIsEmpty(wresult)
    /\ plot_called' = TRUE
    /\ shown' = PlotLineChart(wresult)
    /\ printed' = "table"
    /\ mpc' = "finished"
    /\ UNCHANGED <<mdata, processor, wentry, wresult, allocationVars>>

\* process_workflow, lines 292-302: the table is printed and handed to
\* ChartPlotter.plot_line_chart
ProcessPlot ==
    /\ mpc = "run_returned"
    /\ ~MIsEmpty(wresult) /\ Has(wresult.columns, "New Material Balance")
    /\ plot_called' = TRUE
    /\ shown' = PlotLineChart(wresult)
    /\ printed' = "table"
    /\ mpc' = "finished"
    /\ UNCHANGED <<mdata, processor, wentry, wresult, allocationVars>>

\* process_workflow, lines 303-305
ProcessNoValidData ==
    /\ mpc = "run_returned"
    /\ ~(~MIsEmpty(wresult) /\ Has(wresult.columns, "New Material Balance"))
    /\ printed' = "No valid data to process."
    /\ mpc' = "finished"
    /\ UNCHANGED <<mdata, processor, wentry, wresult, plot_called, shown, allocationVars>>

BalanceNext ==
    \/ PrepareEmpty
    \/ PrepareRaises
    \/ PrepareData
    \/ PerformEmpty
    \/ PerformFirstRow
    \/ PerformNextRow
    \/ PerformReturn
    \/ \E outcome \in {"ok", "insufficient", "not_found", "error"} :
         ReadAndValidateExcel(outcome)
    \/ ExtractNoData
    \/ ExtractData
    \/ RunNoValidData
    \/ RunConstruct
    \/ RunReturn
    \/ ProcessPlot
    \/ ProcessNoValidData

BalanceSpec == BalanceInit /\ [][BalanceNext]_vars

BalanceTypeOK ==
    /\ mpc \in {"constructed", "prepared", "raised", "loop", "returned",
               "workflow", "read", "extracted", "run_returned", "finished"}
    /\ wentry \in {"processor", "workflow", "stub"}
    /\ row \in 0..MaxRows

\* ---------------------------------------------------------------- vocabulary of the properties
\* the call is inside allocate and the working vector holds the initial pass
\* or the outcome of a loop iteration
Working == pc \in {"loop", "finish"}

\* allocate returned the caller's table with its result columns
Returned == pc = "done" /\ result.kind = "table" /\ result.same

PositiveDemand(t) == Less(Zero, TotalDemand(t.capacity))

C2_CapRespected ==
    /\ Working => \A i \in 1..Len(allocation) : ~Less(limits[i], allocation[i])
    /\ Returned => \A i \in 1..data.n :
                      ~Less(FillNa(data.limit)[i], data.allocation[i])

\* _distribute_surplus has run and its addition was cut down to the limit
C2_Witness ==
    /\ pc = "loop" /\ iters >= 1
    /\ NonNegative(data)
    /\ \E i \in 1..Len(allocation) :
          /\ Less(InitialAllocation(demands, limits, group_capacity)[i], limits[i])
          /\ Eq(allocation[i], limits[i])
          /\ Less(allocated_capacity, group_capacity)

\* ---------------------------------------------------------------- C3
\* the sum of the limits, a missing limit counting as unbounded
SumOfLimits(t) == PySum(FillNa(t.limit))

Stuck ==
    /\ pc = "loop"
    /\ Less(allocated_capacity, group_capacity)
    /\ LET remaining_products == GetRemainingProducts(allocation, limits)
       IN  /\ remaining_products # <<>>
           /\ DistributeSurplus(allocation, demands, limits, remaining_products,
                                CalculateRemainingDemand(demands, remaining_products),
                                CalculateSurplus(group_capacity, allocated_capacity))
                = allocation

\* C4: once the required columns are there and the values are non-negative,
\* allocate terminates, also when some entity has zero demand and a limit
\* above its allocation: the redistribution loop never reaches a state in
\* which it repeats for ever.
C4_Terminates == ~(NonNegative(data) /\ Stuck)

\* ---------------------------------------------------------------- C5
\* C5: for an input of N entities (with non-negative values) the body of
\* the redistribution loop is executed at most N+1 times.
C5_IterationBound == NonNegative(data) => iters <= data.n + 1

\* ---------------------------------------------------------------- C6
\* C6 as claimed: for every input that allocate accepts, no allocation in
\* the result is below zero.
C6_Original == Returned => \A i \in 1..data.n : ~Less(data.allocation[i], Zero)

\* C6, amended: for every input whose pool capacity, demands and limits are
\* non-negative, no allocation is below zero, in the working vector and in
\* the result.
C6_NonNegativity ==
    /\ (Working /\ NonNegative(data)) => \A i \in 1..Len(allocation) : ~Less(allocation[i], Zero)
    /\ (Returned /\ NonNegative(data)) => \A i \in 1..data.n : ~Less(data.allocation[i], Zero)

\* a result after a redistribution in which one entity holds nothing and
\* another holds something
C6_Witness ==
    /\ Returned /\ run = 1 /\ iters >= 1 /\ NonNegative(data)
    /\ data.allocation # InitialAllocation(demands, limits, group_capacity)
    /\ \E i, j \in 1..data.n : /\ Eq(data.allocation[i], Zero)
                               /\ Less(Zero, data.allocation[j])

\* ---------------------------------------------------------------- C7
\* the allocation of entity i when its demand is k larger, or NoneVal when
\* allocate does not return for that input
WithLargerDemand(t, i, k) ==
    LET larger == [t.capacity EXCEPT ![i] = Add(@, Rat(k))]
        again == AllocationOf(t.gc[1], larger, t.limit)
    IN  IF again = <<>> THEN NoneVal ELSE again[i]

\* C7 as claimed: for any two inputs that differ only in one entity's
\* demand, larger in the second, that entity's allocation in the second is
\* not smaller than in the first.
C7_Original ==
    (Returned /\ run = 1) => \A i \in 1..data.n, k \in 1..MaxDemand :
                   LET other == WithLargerDemand(data, i, k)
                   IN  other # NoneVal => ~Less(other, data.allocation[i])

\* C7, amended: the same, for inputs whose pool capacity, demands and
\* limits are non-negative.
C7_Monotonicity ==
    (Returned /\ run = 1 /\ NonNegative(data)) =>
        \A i \in 1..data.n, k \in 1..MaxDemand :
            LET other == WithLargerDemand(data, i, k)
            IN  other # NoneVal => ~Less(other, data.allocation[i])

\* a larger demand that earns a strictly larger allocation, and one that
\* earns the same because the entity is at its limit
C7_Witness ==
    /\ Returned /\ run = 1 /\ NonNegative(data) /\ PositiveDemand(data)
    /\ \E i \in 1..data.n : \E k \in 1..MaxDemand :
          /\ WithLargerDemand(data, i, k) # NoneVal
          /\ Less(data.allocation[i], WithLargerDemand(data, i, k))
    /\ \E i \in 1..data.n : \E k \in 1..MaxDemand :
          /\ Less(Zero, data.capacity[i])
          /\ Eq(WithLargerDemand(data, i, k), data.allocation[i])

\* ---------------------------------------------------------------- C8
\* C8: allocate run a second time, on the table it returned, returns the
\* same allocations, shares and under-limit flags as the first time.
C8_SameOnRerun ==
    (pc = "done" /\ run = 2 /\ result.kind = "table") =>
        /\ result.table.allocation = prev.allocation
        /\ result.table.share = prev.share
        /\ result.table.overlimit = prev.overlimit

\* a second call has returned a table with a positive allocation and a share
C8_Witness ==
    /\ Returned /\ run = 2 /\ data.n >= 1
    /\ PositiveDemand(data)
    /\ \E i \in 1..data.n : /\ Less(Zero, data.allocation[i])
                            /\ data.share[i] # NoneVal
                            /\ prev.allocation[i] = data.allocation[i]

\* ---------------------------------------------------------------- C9
\* table t lacks one of GROUP CAPACITY, CAPACITY, INDIVIDUAL LIMIT
LacksRequired(t) == \E i \in 1..Len(Required) : ~Has(t.columns, Required[i])

\* no step of the allocation has run: the locals hold nothing and the
\* caller's table is as it was passed in
NothingAllocated ==
    /\ group_capacity = NoneVal /\ demands = <<>> /\ limits = <<>>
    /\ allocation = <<>> /\ allocated_capacity = NoneVal /\ iters = 0
    /\ data = input

RaisedKeyError == pc = "raised" /\ result.kind = "KeyError"

\* C9 as claimed: when the table lacks a required column, allocate and
\* CapacityAllocator.run end by raising the error, also for an empty table.
C9_Original ==
    (LacksRequired(input) /\ pc \in {"done", "raised"}) => RaisedKeyError

\* C9, amended: when the table lacks a required column, allocate raises
\* KeyError before any allocation step, also for an empty table;
\* CapacityAllocator.run raises it only for a non-empty table, and for an
\* empty one returns an empty DataFrame without calling allocate.
C9_FailFast ==
    /\ (entry = "allocate" /\ LacksRequired(input) /\ pc \notin {"start", "validate"})
          => (RaisedKeyError /\ NothingAllocated)
    /\ (entry = "run" /\ LacksRequired(input) /\ ~IsEmpty(input)
          /\ pc \notin {"start", "run_read", "validate"})
          => (RaisedKeyError /\ NothingAllocated)
    /\ (entry = "run" /\ LacksRequired(input) /\ IsEmpty(input)
          /\ pc \notin {"start", "run_read"})
          => (pc = "done" /\ result.kind = "table" /\ result.table = EmptyFrame
              /\ NothingAllocated)

\* allocate has raised on an empty table that has some columns, not all
C9_Witness ==
    /\ entry = "allocate" /\ RaisedKeyError
    /\ IsEmpty(input) /\ input.columns # <<>> /\ LacksRequired(input)

\* ---------------------------------------------------------------- C10
\* C10 as claimed: with a negative pool capacity, demand or limit allocate
\* fails before any allocation is computed and returns no allocations.
C10_Original ==
    ~NonNegative(input) => pc \notin {"initial", "loop", "finish", "done"}

\* C10, amended: allocate does not look at the sign of the values: the only
\* error it raises is the KeyError for a missing required column, and for
\* a table with a negative value it returns the allocations computed from
\* the values as they are.
C10_NoValueCheck ==
    /\ pc = "raised" => (LacksRequired(input) /\ result.kind = "KeyError")
    /\ (Returned /\ ~NonNegative(data))
          => data.allocation = AllocationOf(data.gc[1], data.capacity, data.limit)

\* a table with a negative value has been answered with a negative allocation
C10_Witness ==
    /\ Returned /\ run = 1 /\ ~NonNegative(data)
    /\ \E i \in 1..data.n : Less(data.allocation[i], Zero)

\* ---------------------------------------------------------------- C11
\* the call has returned an empty table and no allocation step has run
ReturnedEmpty ==
    /\ pc = "done" /\ result.kind = "table" /\ IsEmpty(result.table)
    /\ result.table.allocation = <<>>
    /\ NothingAllocated

\* C11: for an empty table that has the required columns allocate returns
\* an empty result, and for an empty table from the file reader
\* CapacityAllocator.run returns an empty result: no error is raised and
\* the allocation loop does not run.
C11_EmptyResult ==
    /\ (entry = "allocate" /\ IsEmpty(input) /\ ~LacksRequired(input)
          /\ pc \notin {"start", "validate"}) => ReturnedEmpty
    /\ (entry = "run" /\ IsEmpty(input) /\ pc \notin {"start", "run_read"})
          => (ReturnedEmpty /\ result.table = EmptyFrame)

\* allocate has answered an empty table that has the required columns
C11_Witness ==
    /\ entry = "allocate" /\ run = 1 /\ pc = "done"
    /\ IsEmpty(input) /\ ~LacksRequired(input)
    /\ result.table.columns = Append(input.columns, "ALLOCATION")

\* ---------------------------------------------------------------- C12
\* the loop body is about to run: the loop condition holds
InLoopBody == pc = "loop" /\ Less(allocated_capacity, group_capacity)

\* C12: an entity whose limit is missing has an unbounded cap, never a zero
\* cap: its limit in the call is +inf, whenever the loop body looks for
\* the products still below their limit it is among them, and a single
\* entity with positive demand and no limit receives exactly the whole
\* pool capacity.
C12_MissingLimitUnbounded ==
    /\ (pc \in {"initial", "loop", "finish"})
          => \A i \in 1..data.n : IsNaN(data.limit[i]) => limits[i] = Inf
    /\ InLoopBody
          => \A i \in 1..data.n : IsNaN(data.limit[i])
                => i \in Range(GetRemainingProducts(allocation, limits))
    /\ (Returned /\ data.n = 1 /\ IsNaN(data.limit[1]) /\ Less(Zero, data.capacity[1]))
          => data.allocation[1] = data.gc[1]

\* an entity without a limit has taken, in the loop, more than its
\* proportional part of a positive pool
C12_Witness ==
    /\ Returned /\ run = 1 /\ iters >= 1 /\ NonNegative(data)
    /\ \E i \in 1..data.n :
          /\ IsNaN(data.limit[i])
          /\ Less(Zero, data.capacity[i])
          /\ Less(InitialAllocation(demands, limits, group_capacity)[i], data.allocation[i])

\* ---------------------------------------------------------------- C13
\* every demand of table t is zero
AllDemandsZero(t) == t.n >= 1 /\ \A i \in 1..t.n : t.capacity[i] = Zero

\* C13 as claimed: when every demand is zero, for a non-negative pool
\* capacity and non-negative limits, allocate returns without
\* redistributing, with an allocation of exactly 0 for every entity and
\* every share undefined.
C13_AllZeroDemand ==
    (Returned /\ run = 1 /\ NonNegative(data) /\ AllDemandsZero(data)) =>
        /\ iters = 0
        /\ \A i \in 1..data.n : /\ data.allocation[i] = Zero
                                /\ data.share[i] = NoneVal

\* ---------------------------------------------------------------- C14
\* every demand of table t is positive
AllDemandsPositive(t) == t.n >= 1 /\ \A i \in 1..t.n : Less(Zero, t.capacity[i])

\* C14: when the loop body finds no product below its limit while surplus
\* remains, the loop ends there and the allocation stays as it is, the
\* surplus unallocated; for an input with all demands positive and limits
\* summing to less than the pool capacity, every entity ends exactly at its
\* limit and the allocations sum to the sum of the limits.
C14_AllCapped ==
    /\ (InLoopBody /\ GetRemainingProducts(allocation, limits) = <<>>)
          => AdjustAllocation(allocation, demands, limits, group_capacity, 0) = allocation
    /\ (pc = "finish" /\ Less(allocated_capacity, group_capacity))
          => GetRemainingProducts(allocation, limits) = <<>>
    /\ (Returned /\ AllDemandsPositive(data) /\ Less(SumOfLimits(data), data.gc[1]))
          => /\ \A i \in 1..data.n : data.allocation[i] = data.limit[i]
             /\ Eq(PySum(data.allocation), SumOfLimits(data))
             /\ Less(PySum(data.allocation), data.gc[1])

\* two entities with positive demands end at their limits, one of them
\* after a redistribution, and part of the pool is left over
C14_Witness ==
    /\ Returned /\ run = 1 /\ iters >= 2 /\ data.n >= 2
    /\ NonNegative(data) /\ AllDemandsPositive(data)
    /\ Less(SumOfLimits(data), data.gc[1])
    /\ \A i \in 1..data.n : data.allocation[i] = data.limit[i]
    /\ Less(PySum(data.allocation), data.gc[1])

\* ---------------------------------------------------------------- C15
\* the loop body is about to run with some product below its limit and the
\* demands of those products summing to zero
ZeroRemainingDemand ==
    /\ InLoopBody
    /\ LET remaining_products == GetRemainingProducts(allocation, limits)
       IN  /\ remaining_products # <<>>
           /\ Eq(CalculateRemainingDemand(demands, remaining_products), Zero)

\* C15 as claimed: for a non-negative input, when surplus remains and some
\* product is below its limit but the demands of those products sum to
\* zero, the loop ends at that iteration and returns the allocation
\* unchanged, the surplus undistributed.
C15_ZeroRemainingDemandEnds ==
    (NonNegative(data) /\ ZeroRemainingDemand) =>
        AdjustAllocation(allocation, demands, limits, group_capacity, 1) = allocation

\* ---------------------------------------------------------------- C16
\* C16: in the returned table every NEW ALLOC. SHARE is the entity's final
\* allocation divided by the total demand of all entities (not by the pool
\* capacity), and it is undefined for every entity when the total demand
\* is zero.
C16_Share ==
    Returned =>
        /\ data.allocation = allocation
        /\ \A i \in 1..data.n :
              IF Eq(PySum(data.capacity), Zero)
              THEN data.share[i] = NoneVal
              ELSE data.share[i] = Div(data.allocation[i], PySum(data.capacity))

\* after a redistribution, a share that is neither the allocation over the
\* pool capacity nor the allocation over the allocated sum
C16_Witness ==
    /\ Returned /\ run = 1 /\ iters >= 1 /\ NonNegative(data) /\ PositiveDemand(data)
    /\ \E i \in 1..data.n :
          /\ Less(Zero, data.share[i])
          /\ Less(InitialAllocation(demands, limits, group_capacity)[i], data.allocation[i])
          /\ data.share[i] = Div(data.allocation[i], PySum(data.capacity))
          /\ data.share[i] # Div(data.allocation[i], data.gc[1])
          /\ data.share[i] # Div(data.allocation[i], PySum(data.allocation))

\* ---------------------------------------------------------------- C17
\* C17 as claimed: for a non-negative input with positive total demand,
\* every NEW OVERLIMIT flag of the returned table is true exactly when the
\* entity's final allocation is strictly below its limit, a missing limit
\* counting as unbounded, so that an entity without a limit is always
\* flagged.
C17_FlagUnderLimit ==
    (Returned /\ NonNegative(data) /\ PositiveDemand(data)) =>
        \A i \in 1..data.n :
            data.overlimit[i] = Less(data.allocation[i], FillNa(data.limit)[i])

\* ---------------------------------------------------------------- C18
\* C18 as claimed: allocate has no side effects: when the call has ended,
\* the table the caller passed in is as it was before the call.
C18_NoSideEffects ==
    (entry = "allocate" /\ run = 1 /\ pc \in {"done", "raised"}) => data = input

\* ---------------------------------------------------------------- C19
\* C19 as claimed: for every non-negative input with positive total demand,
\* every NEW ALLOC. SHARE of the returned table is at most 1.
C19_Original ==
    (Returned /\ NonNegative(data) /\ PositiveDemand(data)) =>
        \A i \in 1..data.n : Leq(data.share[i], Rat(1))

\* C19, amended: for every non-negative input with positive total demand,
\* every NEW ALLOC. SHARE is at most the pool capacity over the total
\* demand; it is at most 1 for an entity whose limit is at most the total
\* demand, and for every entity when the pool capacity is at most the
\* total demand.
C19_ShareBound ==
    (Returned /\ NonNegative(data) /\ PositiveDemand(data)) =>
        \A i \in 1..data.n :
            /\ Leq(data.share[i], Div(data.gc[1], PySum(data.capacity)))
            /\ (Leq(data.gc[1], PySum(data.capacity))
                  \/ Leq(FillNa(data.limit)[i], PySum(data.capacity)))
                  => Leq(data.share[i], Rat(1))

\* a pool no larger than the total demand, and an entity that after a
\* redistribution has a positive share
C19_Witness ==
    /\ Returned /\ run = 1 /\ iters >= 1 /\ NonNegative(data) /\ PositiveDemand(data)
    /\ Leq(data.gc[1], PySum(data.capacity))
    /\ \E i \in 1..data.n :
          /\ Less(InitialAllocation(demands, limits, group_capacity)[i], data.allocation[i])
          /\ Less(Zero, data.share[i])
          /\ Leq(data.share[i], Rat(1))

\* ---------------------------------------------------------------- C20
\* the closed form of row k of New Material Balance, from the table as it
\* was when perform_material_balance_calculation was called
ClosedBalance(k) ==
    stock_at_hand - production_backlog - SumTo(minput.demand, k) + SumTo(minput.cds, k - 1)

\* C20: perform_material_balance_calculation fills New Material Balance so
\* that row 0 is stock_at_hand - production_backlog - Demand[0] and every
\* later row i is balance[i-1] + Confirmed Delivery Sum[i-1] - Demand[i],
\* that is stock_at_hand - production_backlog - the sum of Demand[0..i] +
\* the sum of Confirmed Delivery Sum[0..i-1]; all rows are filled when it
\* returns, and Demand and Confirmed Delivery Sum are left unchanged.
C20_MaterialBalance ==
    (mpc \in {"loop", "returned"} /\ ~MIsEmpty(mdata)) =>
        /\ mpc = "returned" => row = mdata.n
        /\ mdata.balance[1] = Num(stock_at_hand - production_backlog - Val(minput.demand[1]))
        /\ \A k \in 2..row :
              mdata.balance[k] = Num(Val(mdata.balance[k - 1]) + Val(minput.cds[k - 1])
                                     - Val(minput.demand[k]))
        /\ \A k \in 1..row : mdata.balance[k] = Num(ClosedBalance(k))
        /\ \A k \in (row + 1)..mdata.n : mdata.balance[k] = None
        /\ mdata.demand = minput.demand
        /\ mdata.cds = minput.cds

\* a table of two rows or more has been returned, with a delivery in the
\* first row that differs from the delivery in the second
C20_Witness ==
    /\ mpc = "returned" /\ mdata.n >= 2 /\ row = mdata.n
    /\ Val(mdata.cds[1]) # Val(mdata.cds[2])
    /\ Val(mdata.demand[2]) > 0
    /\ mdata.balance[2] = Num(ClosedBalance(2))

\* ---------------------------------------------------------------- C21
\* the table run returned is not empty and has a New Material Balance column
ValidResult == ~MIsEmpty(wresult) /\ Has(wresult.columns, "New Material Balance")

\* C21: when process_workflow has ended, the chart was plotted exactly when
\* the table run returned is not empty and has a New Material Balance
\* column; in every other case nothing was plotted and "No valid data to
\* process." was printed.  For a table that run itself produced, plotted
\* means shown; a failed or insufficient read ends in the other case.
C21_PlotsWhenValid ==
    /\ mpc = "finished" =>
          /\ plot_called <=> ValidResult
          /\ (printed = "No valid data to process.") <=> ~ValidResult
          /\ ~ValidResult => ~shown
          /\ wentry = "workflow" => (shown <=> ValidResult)
    /\ mpc # "finished" => (~plot_called /\ ~shown /\ printed = "nothing")
    /\ (wentry = "workflow" /\ mpc = "finished" /\ mdata = MEmptyFrame) => ~ValidResult

\* the workflow has read a workbook, calculated two rows and shown the chart
C21_Witness ==
    /\ wentry = "workflow" /\ mpc = "finished"
    /\ wresult.n >= 2 /\ wresult.balance[2] = Num(ClosedBalance(2))
    /\ plot_called /\ shown /\ printed = "table"

\* ---------------------------------------------------------------- C22
\* (demand / total demand) * pool capacity of entity i of table t
ProportionalShare(t, i) == Mul(Div(t.capacity[i], PySum(t.capacity)), t.gc[1])

\* the limit of entity i of table t, a missing one unbounded
LimitOf(t, i) == IF IsNaN(t.limit[i]) THEN Inf ELSE t.limit[i]

Current == IF Returned THEN data.allocation ELSE allocation

\* entity i is strictly below its limit
BelowLimit(i) == Less(Current[i], LimitOf(data, i))

\* the allocation-to-demand ratios are compared by cross-multiplication:
\* entities below their limit have one common ratio, and an entity at its
\* limit has a ratio that is not larger
FairAllocation ==
    \A i \in 1..data.n, j \in 1..data.n :
        /\ (BelowLimit(i) /\ BelowLimit(j))
              => Eq(Mul(Current[i], data.capacity[j]), Mul(Current[j], data.capacity[i]))
        /\ (~BelowLimit(i) /\ BelowLimit(j))
              => Leq(Mul(Current[i], data.capacity[j]), Mul(Current[j], data.capacity[i]))

AfterIteration ==
    LET remaining_products == GetRemainingProducts(allocation, limits)
    IN  DistributeSurplus(allocation, demands, limits, remaining_products,
                          CalculateRemainingDemand(demands, remaining_products),
                          CalculateSurplus(group_capacity, allocated_capacity))

\* the entities of vector a that are at their limit
Capped(a) == {i \in 1..Len(a) : ~Less(a[i], limits[i])}

\* the loop body is about to distribute, and the loop goes on after it
IterationGoesOn ==
    /\ InLoopBody
    /\ GetRemainingProducts(allocation, limits) # <<>>
    /\ Less(PySum(AfterIteration), group_capacity)

\* C24 as claimed: for a non-negative input, an iteration that does not end
\* the loop strictly increases the sum of the allocations and brings at
\* least one more entity to its limit, and every entity that was at its
\* limit is still there.
C24_LoopProgress ==
    (NonNegative(data) /\ IterationGoesOn) =>
        /\ Less(PySum(allocation), PySum(AfterIteration))
        /\ Capped(allocation) \subseteq Capped(AfterIteration)
        /\ Capped(allocation) # Capped(AfterIteration)
        /\ \A i \in Capped(allocation) : AfterIteration[i] = allocation[i]

\* ---------------------------------------------------------------------
\* _distribute_surplus called on its own, as the unit tests call it
\* ---------------------------------------------------------------------

\* entities of a direct call, and the largest quantity of its arguments
MaxCallN == 2
MaxCallQty == 1

\* the ascending lists of positions among 1..n that have k as last candidate
RECURSIVE Listings(_)
Listings(k) ==
    IF k = 0 THEN {<<>>}
    ELSE Listings(k - 1) \cup {Append(r, k) : r \in Listings(k - 1)}

\* the arguments of a direct call: the list names any entities, capped or
\* not, the remaining demand is the sum of the listed demands, and the
\* surplus is zero or the largest quantity
CallInit ==
    /\ AllocationIdle
    /\ MaterialIdle
    /\ \E n \in 1..MaxCallN :
       \E a \in [1..n -> {Rat(k) : k \in 0..MaxCallQty}] :
       \E d \in [1..n -> {Rat(k) : k \in 0..MaxCallQty}] :
       \E l \in [1..n -> {Rat(k) : k \in 0..MaxCallQty} \cup {Inf}] :
       \E remaining \in Listings(n) :
       \E s \in {Zero, Rat(MaxCallQty)} :
          helper = [state |-> "called", allocation |-> a, demands |-> d, limits |-> l,
                    remaining_products |-> remaining,
                    remaining_demand |-> CalculateRemainingDemand(d, remaining),
                    surplus |-> s, returned |-> <<>>]

\* _distribute_surplus runs and returns the list it was given
DistributeCall ==
    /\ helper.state = "called"
    /\ helper' = [helper EXCEPT
            !.state = "returned",
            !.returned = DistributeSurplus(helper.allocation, helper.demands, helper.limits,
                                           helper.remaining_products, helper.remaining_demand,
                                           helper.surplus)]
    /\ UNCHANGED <<data, input, entry, pc, group_capacity, demands, limits, allocation,
                   allocated_capacity, iters, result, run, prev, material>>

CallNext == DistributeCall

CallSpec == CallInit /\ [][CallNext]_vars

\* the entities a direct call lists
Listed == Range(helper.remaining_products)

\* every listed entity is uncapped: its allocation is below its limit
ListedUncapped == \A i \in Listed : Less(helper.allocation[i], helper.limits[i])

\* C25: _distribute_surplus changes only the allocations of the entities
\* listed as remaining: every other entity's allocation is returned as it
\* was given; with an empty list the whole vector is returned as given, and
\* so it is with a zero surplus, the listed entities being uncapped.
C25_OnlyListedChange ==
    helper.state = "returned" =>
        /\ \A i \in (1..Len(helper.allocation)) \ Listed :
              helper.returned[i] = helper.allocation[i]
        /\ helper.remaining_products = <<>> => helper.returned = helper.allocation
        /\ (Eq(helper.surplus, Zero) /\ ListedUncapped) => helper.returned = helper.allocation

\* a call with a positive surplus that lists one uncapped entity and leaves
\* another out: the listed one has grown, the other one has not moved
C25_Witness ==
    /\ helper.state = "returned"
    /\ Less(Zero, helper.surplus)
    /\ ListedUncapped
    /\ \E i \in Listed : Less(helper.allocation[i], helper.returned[i])
    /\ \E j \in (1..Len(helper.allocation)) \ Listed :
          /\ Less(Zero, helper.demands[j])
          /\ Less(helper.allocation[j], helper.limits[j])
          /\ helper.returned[j] = helper.allocation[j]

====
